---- MODULE Spec2Model ----
(***************************************************************************)
(* Model of the Exoquic browser SDK session engine:                        *)
(*   SourceManager   (src/source.ts)       failover buffering              *)
(*   EventProcessor  (src/events.ts)       delivery, cursor, dispatch      *)
(*   SessionIdManager(src/session.ts)      'sids' store                    *)
(*   CacheManager    (src/source.ts:129)   'events' store                  *)
(*   SubscriptionManager (src/subscription.ts) subscribe / suback          *)
(*   Connection      (src/connection.ts)   state machine and reconnect     *)
(*                                                                         *)
(* Six specifications share the variables:                                 *)
(*   SpecSource    the SourceManager driven through its two public methods *)
(*   Spec          subscribe, suback and event frames on an open socket,   *)
(*                 the asynchronous handlers and the two stores            *)
(*   SpecFailover  event and onsrc frames with listeners registered        *)
(*   SpecConn      the Connection with its transport, timers, close(),     *)
(*                 sendFrame() and produce()                               *)
(*   SpecStoreFail subscribe and suback with a failing put on 'sids'       *)
(*   SpecSubscribe subscribe() on a connection that opens, fails and drops *)
(*                                                                         *)
(* IndexedDB requests on one store run in the order they are issued, so a  *)
(* request takes effect (or reads) in the step that issues it; the handler *)
(* that awaits it continues in a later step.  Each action below is one     *)
(* run-to-completion stretch of a handler between two awaits.              *)
(***************************************************************************)
EXTENDS Integers, Sequences, FiniteSets, TLC

\* ------------------------------------------------------------------ bounds
\* event frames that arrive in one behaviour
MaxFrames == 2
\* source tags an onsrc / event frame may carry: 1..MaxSrc (1 and 2 are the
\* protocol's primary and secondary, the others stand for "any other number")
MaxSrc == 3
\* subscribe() calls in one behaviour
MaxSubs == 2
\* handlers suspended on a store request at one time
MaxTasks == 2
\* correlation ids Math.random() can give: 0..MaxCid
MaxCid == 2
\* open() attempts (sockets) in one behaviour
MaxAttempts == 3
\* frames written to one socket
MaxSends == 1
\* produce() calls in one behaviour
MaxProduce == 1
\* calls of SourceManager.processEventFrame in one behaviour of SpecSource
MaxSourceFrames == 3

Sids == {"s1", "s2"}
Dests == {"d1", "d2"}
Srcs == 1..MaxSrc
Cids == 0..MaxCid
\* number of events in a batch
BatchSizes == {0, 2}

\* `undefined` for a source tag, a gid, a sid, a destination
NoSrc == 0
NoGid == 0
NoSid == "none"
NoDest == ""

VARIABLES
  \* SourceManager (src/source.ts:5-6)
  activeSources,    \* Map<sid, number>: a function on the sids that have a key
  bufferedEvents,   \* Map<sid, Batch[]>: a function on the sids that have a key
  \* observation of the SourceManager's calls
  srcCall,          \* the last call: its kind, arguments, what it read and returned
  bufLog,           \* per sid, the frame ids of every batch ever buffered, in order
  relLog,           \* per sid, the frame ids of every batch ever released, in order
  fcount,           \* event frames received so far (a frame's id is its arrival number)
  lastGid,          \* destination -> gid of the batch of the last frame received for it
  \* the IndexedDB database (src/index.ts:75-102)
  sidsStore,        \* 'sids': SessionData by destination (keyPath 'destination')
  eventsStore,      \* 'events': cache entries in key order (autoIncrement keys)
  \* EventProcessor / SubscriptionManager / Config
  destinationHandlers,   \* Map<destination, Set<EventHandler>> (src/events.ts:14)
  pendingSubscriptions,  \* Map<cid, SubscribeFrame> in insertion order (src/subscription.ts:13)
  cacheEnabled,          \* Config.cacheEnabled (src/types.ts:56)
  tasks,            \* the suspended handlers, in the order their awaited requests were issued
  scount,           \* subscribe() calls so far
  \* observation of the pipeline
  delivered,        \* every listener invocation so far, in order
  \* Connection (src/connection.ts:14-19), its Config and the facade
  connState,        \* ConnectionState: "CLOSED", "CONNECTING", "OPEN", "CLOSING"
  ws,               \* this.ws: the id of a socket, or NoWs for null
  reconnectMs,      \* this.reconnectMs, in ticks
  frameHandlers,    \* the number of registered frame handlers
  shouldReconnect,  \* Config.shouldReconnect (src/types.ts:55)
  config,           \* Config.reconnectTimeout and .maxReconnectTimeout, in ticks
  closed,           \* Exoquic.closed (src/index.ts:23)
  sockets,          \* every open() attempt so far: its transport and its promise
  timers,           \* the reconnect timers that are set and have not fired
  errorLog,         \* the errors reported on the error channel, in order
  sendCall          \* the last call of sendFrame / produce and its outcome

srcVars == <<activeSources, bufferedEvents, srcCall, bufLog, relLog>>
frameVars == <<fcount, lastGid>>
pipeVars == <<sidsStore, eventsStore, destinationHandlers, pendingSubscriptions,
              cacheEnabled, tasks, scount, delivered>>
connVars == <<connState, ws, reconnectMs, frameHandlers, shouldReconnect, config, closed,
              sockets, timers, errorLog, sendCall>>

\* ------------------------------------------------------------ Map helpers
\* Map.get: the value, or `undef` when the key is absent
MapGet(m, k, undef) == IF k \in DOMAIN m THEN m[k] ELSE undef

\* Map.set
MapSet(m, k, v) == [x \in DOMAIN m \cup {k} |-> IF x = k THEN v ELSE m[x]]

\* Map.delete
MapDelete(m, k) == [x \in DOMAIN m \ {k} |-> m[x]]

EmptyMap == [x \in {} |-> 0]

\* ------------------------------------------------------------------ frames
\* Event {gid, data} (src/types.ts:139-142); the payload of event i is "p<i>"
EventsOf(n) == IF n = 0 THEN <<>>
               ELSE IF n = 1 THEN <<[gid |-> 1, data |-> "pa"]>>
               ELSE <<[gid |-> 1, data |-> "pa"], [gid |-> 2, data |-> "pb"]>>

\* Batch {destination, gid, data, sid} (src/types.ts:132-137).  `fid` is the
\* identity of the batch object: the arrival number of the frame that carried it.
MkBatch(d, g, n, s, id) ==
  [destination |-> d, gid |-> g, data |-> EventsOf(n), sid |-> s, fid |-> id]

\* EventFrame {src, batch, sid} (src/types.ts:102-108)
MkEventFrame(s, src, d, g, n, id) ==
  [sid |-> s, src |-> src, batch |-> MkBatch(d, g, n, s, id)]

\* OnSrcFrame {src, sid} (src/types.ts:110-115)
OnSrcFrames == [sid : Sids, src : Srcs]

Fids(batches) == [i \in 1..Len(batches) |-> batches[i].fid]

\* ------------------------------------------------------------ SourceManager
\* SourceManager.bufferEvent (src/source.ts:42-49)
BufferEvent(buf, sid, batch) ==
  IF sid \notin DOMAIN buf
    THEN MapSet(buf, sid, <<batch>>)
    ELSE [buf EXCEPT ![sid] = Append(@, batch)]

\* a bug: the returned array stays in the map
ProcessBufferedEvents_NoDelete(buf, sid) ==
  IF sid \notin DOMAIN buf
    THEN [ret |-> <<>>, buf |-> buf]
    ELSE [ret |-> buf[sid], buf |-> buf]

\* SourceManager.processBufferedEvents (src/source.ts:52-62): returns the sid's
\* array and deletes the key
ProcessBufferedEvents(buf, sid) ==
  IF sid \notin DOMAIN buf
    THEN [ret |-> <<>>, buf |-> buf]
    ELSE [ret |-> buf[sid], buf |-> MapDelete(buf, sid)]

\* a bug: every switch to source 2 flushes
IsFailover_AnyTo2(oldSource, newSource) == newSource = 2

\* the flush condition of handleSourceChange (src/source.ts:21)
IsFailover(oldSource, newSource) == newSource = 2 /\ oldSource = 1

\* SourceManager.handleSourceChange (src/source.ts:8-26): the new maps and the
\* returned batches
HandleSourceChange(act, buf, frame) ==
  LET newSource == frame.src
      activeSource == MapGet(act, frame.sid, NoSrc)
  IN IF newSource = activeSource
       THEN [act |-> act, buf |-> buf, ret |-> <<>>, old |-> activeSource]
       ELSE LET act2 == MapSet(act, frame.sid, newSource)
            IN IF IsFailover(activeSource, newSource)
                 THEN LET r == ProcessBufferedEvents(buf, frame.sid)
                      IN [act |-> act2, buf |-> r.buf, ret |-> r.ret,
                          old |-> activeSource]
                 ELSE [act |-> act2, buf |-> buf, ret |-> <<>>,
                       old |-> activeSource]

\* SourceManager.processEventFrame (src/source.ts:28-40): TRUE = deliver now,
\* FALSE = the batch was buffered
SMProcessEventFrame(act, buf, frame) ==
  LET activeSource == MapGet(act, frame.sid, NoSrc)
  IN IF frame.src = activeSource
       THEN [buf |-> buf, pass |-> TRUE, old |-> activeSource]
       ELSE [buf |-> BufferEvent(buf, frame.sid, frame.batch), pass |-> FALSE,
             old |-> activeSource]

NoCall == [op |-> "none", sid |-> NoSid, src |-> NoSrc, old |-> NoSrc,
           ret |-> <<>>, pass |-> FALSE]

InitSource ==
  /\ activeSources = EmptyMap
  /\ bufferedEvents = EmptyMap
  /\ srcCall = NoCall
  /\ bufLog = [s \in Sids |-> <<>>]
  /\ relLog = [s \in Sids |-> <<>>]

\* a call of SourceManager.processEventFrame with the next event frame
SourceEvent(s, src) ==
  /\ fcount < MaxSourceFrames
  /\ LET frame == MkEventFrame(s, src, "d1", fcount + 1, 2, fcount + 1)
         r == SMProcessEventFrame(activeSources, bufferedEvents, frame)
     IN /\ bufferedEvents' = r.buf
        /\ srcCall' = [op |-> "event", sid |-> s, src |-> src, old |-> r.old,
                       ret |-> <<>>, pass |-> r.pass]
        /\ bufLog' = IF r.pass THEN bufLog
                     ELSE [bufLog EXCEPT ![s] = Append(@, fcount + 1)]
  /\ fcount' = fcount + 1
  /\ lastGid' = MapSet(lastGid, "d1", fcount + 1)
  /\ UNCHANGED <<activeSources, relLog, pipeVars, connVars>>

\* a call of SourceManager.handleSourceChange
SourceChange(frame) ==
  /\ LET r == HandleSourceChange(activeSources, bufferedEvents, frame)
     IN /\ activeSources' = r.act
        /\ bufferedEvents' = r.buf
        /\ srcCall' = [op |-> "onsrc", sid |-> frame.sid, src |-> frame.src,
                       old |-> r.old, ret |-> r.ret, pass |-> FALSE]
        /\ relLog' = [relLog EXCEPT ![frame.sid] = @ \o Fids(r.ret)]
  /\ UNCHANGED <<bufLog, frameVars, pipeVars, connVars>>

\* ------------------------------------------------------------- the stores
\* `undefined` for a SessionData read
NoRec == [sid |-> NoSid, gid |-> NoGid]

NoBatch == MkBatch(NoDest, NoGid, 0, NoSid, 0)

\* SessionIdManager.getSessionData (src/session.ts:63-75): db.get('sids', destination)
GetSessionData(store, destination) == MapGet(store, destination, NoRec)

\* SessionIdManager.storeSessionId (src/session.ts:22-43): put {destination, sid,
\* gid: undefined}
StoreSessionId(store, sid, destination) ==
  MapSet(store, destination, [sid |-> sid, gid |-> NoGid])

\* SessionIdManager.removeDestination (src/session.ts:97-109)
RemoveDestination(store, destination) == MapDelete(store, destination)

\* the put of SessionIdManager.updateGid (src/session.ts:53-56): the record that
\* was read, with its gid replaced
UpdateGidPut(store, destination, sessionData, gid) ==
  MapSet(store, destination, [sessionData EXCEPT !.gid = gid])

\* db.getAllFromIndex('events', 'destination', destination) (src/session.ts:118)
EventsByDestination(store, destination) ==
  LET Hit(e) == e.destination = destination IN SelectSeq(store, Hit)

\* CacheManager.getEventsBySid (src/source.ts:162-178): the batches of the
\* entries whose sid matches, in key order
GetEventsBySid(store, enabled, sid) ==
  IF ~enabled THEN <<>>
  ELSE LET Hit(e) == e.sid = sid
           hits == SelectSeq(store, Hit)
       IN [i \in 1..Len(hits) |-> hits[i].batch]

\* CacheManager.storeEvent (src/source.ts:138-160): put {destination, sid, batch}
StoreEvent(store, enabled, batch) ==
  IF ~enabled THEN store
  ELSE Append(store, [destination |-> batch.destination, sid |-> batch.sid,
                      batch |-> batch])

\* The loop of SessionIdManager.clearEventsByDestination (src/session.ts:119-123)
\* deletes by `event.id`.  The 'events' store has no keyPath (src/index.ts:80-82)
\* and an entry is {destination, sid, batch} (src/source.ts:123-127, 148-152): no
\* entry has an id, the key passed is undefined, and the first delete throws.
\* TRUE = the call throws (and nothing was deleted).
ClearEventsThrows(snapshot) == snapshot # <<>>

\* ---------------------------------------------------------- EventProcessor
\* batch.data.map(event => event.data) (src/events.ts:80)
EventData(batch) == [i \in 1..Len(batch.data) |-> batch.data[i].data]

HandlersOf(dh, dest) == MapGet(dh, dest, <<>>)

\* EventProcessor.addListener for one destination (src/events.ts:106-116): a Set
\* keeps insertion order and no duplicates
AddListener(dh, dest, h) ==
  LET hs == HandlersOf(dh, dest)
  IN IF \E i \in 1..Len(hs) : hs[i] = h THEN MapSet(dh, dest, hs)
     ELSE MapSet(dh, dest, Append(hs, h))

\* EventProcessor.dispatch (src/events.ts:90-104): every handler of the
\* destination is called with the payloads.  `via` and `held` are observation.
Dispatch(log, dh, data, dest, fid, via, held) ==
  LET hs == HandlersOf(dh, dest)
  IN log \o [i \in 1..Len(hs) |->
               [handler |-> hs[i], dest |-> dest, data |-> data, fid |-> fid,
                via |-> via, held |-> held]]

\* a bug: skipCache is ignored, every processed batch is cached
ProcessEvent_IgnoreSkip(store, log, dh, enabled, batch, skipCache, via, held) ==
  [events |-> StoreEvent(store, enabled, batch),
   log |-> IF batch.destination # NoDest
             THEN Dispatch(log, dh, EventData(batch), batch.destination,
                           batch.fid, via, held)
             ELSE log]

\* EventProcessor.processEvent (src/events.ts:73-88): the cache put, not awaited,
\* then the dispatch
ProcessEvent(store, log, dh, enabled, batch, skipCache, via, held) ==
  [events |-> IF enabled /\ ~skipCache THEN StoreEvent(store, enabled, batch)
              ELSE store,
   log |-> IF batch.destination # NoDest
             THEN Dispatch(log, dh, EventData(batch), batch.destination,
                           batch.fid, via, held)
             ELSE log]

\* ProcessEvent over a list of batches, in order
RECURSIVE ProcessEvents(_, _, _, _, _, _, _)
ProcessEvents(store, log, dh, enabled, batches, skipCache, via) ==
  IF batches = <<>> THEN [events |-> store, log |-> log]
  ELSE LET r == ProcessEvent(store, log, dh, enabled, Head(batches), skipCache,
                             via, FALSE)
       IN ProcessEvents(r.events, r.log, dh, enabled, Tail(batches), skipCache, via)

\* ------------------------------------------------------ suspended handlers
\* A handler suspended on an IndexedDB request: where it continues (pc), the
\* store and mode of the request it awaits, and its locals.
BaseTask ==
  [kind |-> "none", pc |-> "none", store |-> "none", mode |-> "ro",
   sid |-> NoSid, held |-> FALSE, batch |-> NoBatch, dest |-> NoDest, cid |-> 0,
   got |-> NoRec, snap |-> <<>>, todo |-> <<>>, noCursor |-> FALSE,
   storedAt |-> NoSid, failed |-> FALSE, att |-> 0]

RemoveAt(s, i) == SubSeq(s, 1, i - 1) \o SubSeq(s, i + 1, Len(s))

\* the handler at i issued its next request: it is now the last to have issued one
Reissue(i, t) == Append(RemoveAt(tasks, i), t)

\* Transactions whose scopes overlap run in the order they were created when one
\* of them is readwrite, so their completions reach the handlers in that order;
\* others complete in any order.
Conflict(a, b) == a.store = b.store /\ (a.mode = "rw" \/ b.mode = "rw")

CanResume(i) == \A j \in 1..(i - 1) : ~Conflict(tasks[j], tasks[i])

At(i, kind, pc) ==
  /\ i \in 1..Len(tasks)
  /\ tasks[i].kind = kind
  /\ tasks[i].pc = pc
  /\ CanResume(i)

\* ----------------------------------------------------- SubscriptionManager
\* Map.set on pendingSubscriptions (src/subscription.ts:60): a key that is
\* present keeps its place and gets the new value
PendingSet(p, frame) ==
  IF \E i \in 1..Len(p) : p[i].cid = frame.cid
    THEN [i \in 1..Len(p) |-> IF p[i].cid = frame.cid THEN frame ELSE p[i]]
    ELSE Append(p, frame)

\* Map.delete on pendingSubscriptions (src/subscription.ts:110)
PendingDelete(p, cid) ==
  LET Other(f) == f.cid # cid IN SelectSeq(p, Other)

\* the matching loop of handleSubAck (src/subscription.ts:70-76): the first
\* entry, whatever its cid; `if (matchedCid && matchedFrame)` is false for cid 0
Matched(p) == p # <<>> /\ p[1].cid # 0

InitPipe ==
  /\ sidsStore = EmptyMap
  /\ eventsStore = <<>>
  /\ destinationHandlers = EmptyMap
  /\ pendingSubscriptions = <<>>
  /\ cacheEnabled \in BOOLEAN
  /\ tasks = <<>>
  /\ scount = 0
  /\ delivered = <<>>

vars == <<srcVars, frameVars, pipeVars, connVars>>

\* -------------------------------------------------------------- Connection
NoWs == 0

\* Times are kept in ticks of a quarter millisecond, so that every product by
\* 1.5 below the ceiling is a whole number.
TicksPerMs == 2 * 2

\* Config.reconnectTimeout and Config.maxReconnectTimeout, the defaults, in ms
ReconnectTimeout == 1000
MaxReconnectTimeout == 10000

\* the close code of an intentional shutdown (src/connection.ts:99)
NormalClosure == 1000

\* the codes of the close events the transport delivers: normal, and abnormal
\* (the network dropped)
CloseCodes == {1000, 1006}

Min(a, b) == IF a <= b THEN a ELSE b

\* The options a session is constructed with (src/types.ts:53-54), in ms: the
\* defaults; a ceiling the first product by 1.5 passes; an initial delay above
\* the ceiling.  Nothing validates one against the other.
DefaultConfig ==
  [reconnectTimeout |-> ReconnectTimeout * TicksPerMs,
   maxReconnectTimeout |-> MaxReconnectTimeout * TicksPerMs]

Configs ==
  {DefaultConfig,
   [reconnectTimeout |-> ReconnectTimeout * TicksPerMs,
    maxReconnectTimeout |-> (ReconnectTimeout + 200) * TicksPerMs],
   [reconnectTimeout |-> 2 * MaxReconnectTimeout * TicksPerMs,
    maxReconnectTimeout |-> MaxReconnectTimeout * TicksPerMs]}

\* Math.min(this.reconnectMs * 1.5, this.config.maxReconnectTimeout)
\* (src/connection.ts:104-107)
NextWait(ms, max) == Min((ms * 3) \div 2, max)

\* handleClose's test (src/connection.ts:99): TRUE = no reconnect is scheduled
NoReconnect(code, reconnect) == code = NormalClosure \/ ~reconnect

\* open()'s test (src/connection.ts:28): TRUE = the call returns at once
OpenIsNoOp(st) == st = "OPEN" \/ st = "CONNECTING"

\* `sent` counts the frames written to the socket; `waiting` the produce()
\* calls that await this attempt's promise before they send
NewAttempt(origin) ==
  [phase |-> "jwt", promise |-> "pending", origin |-> origin, erred |-> FALSE,
   sent |-> 0, waiting |-> 0]

\* Connection.open up to its await of the jwtProvider (src/connection.ts:27-35)
OpenBody(origin) ==
  IF OpenIsNoOp(connState)
    THEN UNCHANGED <<connState, sockets>>
    ELSE /\ Len(sockets) < MaxAttempts
         /\ connState' = "CONNECTING"
         /\ sockets' = Append(sockets, NewAttempt(origin))

\* ErrorCode.CONNECTION_ERROR (src/types.ts) and ErrorHandler.handleError
CONNECTION_ERROR == "connection_error"
HandleError(code, message) == [code |-> code, message |-> message]

\* ErrorCode.PRODUCTION_ERROR, reported by the catch of Publisher.publish
\* (src/source.ts:88-94)
PRODUCTION_ERROR == "produce_error"
PublishFailed(log) ==
  Append(log, HandleError(PRODUCTION_ERROR, "Failed to publish"))

\* the promise of an attempt rejects: a publish() that awaits it reports its
\* failure
ReportWaiting(log, sock) ==
  IF sock.waiting > 0 /\ sock.promise = "pending" THEN PublishFailed(log) ELSE log

Reject(p) == IF p = "pending" THEN "rejected" ELSE p

\* `produced` counts the produce() calls made
NoSend == [op |-> "none", result |-> "none", state |-> "CLOSED", produced |-> 0]

InitConn ==
  /\ connState = "CLOSED"
  /\ ws = NoWs
  /\ config \in Configs
  /\ reconnectMs = config.reconnectTimeout
  /\ frameHandlers = 1
  /\ shouldReconnect \in BOOLEAN
  /\ closed = FALSE
  /\ sockets = <<>>
  /\ timers = <<>>
  /\ errorLog = <<>>
  /\ sendCall = NoSend

otherVars == <<srcVars, frameVars, pipeVars>>

\* Connection.open called through the facade (src/subscription.ts:43-45,
\* src/source.ts:81-83, src/connection.ts:138-140); the facade's methods throw
\* once it is closed (src/index.ts:108, 124, 138, 150)
OpenCall ==
  /\ ~closed
  /\ OpenBody("call")
  /\ UNCHANGED <<ws, reconnectMs, frameHandlers, shouldReconnect, config, sendCall, closed, timers,
                 errorLog, otherVars>>

\* the jwtProvider resolved: the WebSocket is created and the connect timeout
\* armed (src/connection.ts:35-42)
JwtResolves(a) ==
  /\ a \in 1..Len(sockets) /\ sockets[a].phase = "jwt"
  /\ sockets' = [sockets EXCEPT ![a].phase = "connecting"]
  /\ UNCHANGED <<connState, ws, reconnectMs, frameHandlers, shouldReconnect, config, sendCall,
                 closed, timers, errorLog, otherVars>>

\* the jwtProvider rejected, or new WebSocket threw (src/connection.ts:60-64)
JwtRejects(a) ==
  /\ a \in 1..Len(sockets) /\ sockets[a].phase = "jwt"
  /\ connState' = "CLOSED"
  /\ errorLog' = ReportWaiting(
       Append(errorLog, HandleError(CONNECTION_ERROR,
                                    "Failed to get Exoquic access token")),
       sockets[a])
  /\ sockets' = [sockets EXCEPT ![a].phase = "done", ![a].promise = "rejected",
                                ![a].waiting = 0]
  /\ UNCHANGED <<ws, reconnectMs, frameHandlers, shouldReconnect, config, sendCall, closed, timers,
                 otherVars>>

\* ws.onopen (src/connection.ts:44-51)
WsOpens(a) ==
  /\ a \in 1..Len(sockets) /\ sockets[a].phase = "connecting"
  /\ connState' = "OPEN"
  /\ reconnectMs' = config.reconnectTimeout
  /\ ws' = a
  /\ sockets' = [sockets EXCEPT ![a].phase = "open", ![a].promise = "resolved",
                                ![a].sent = @ + sockets[a].waiting,
                                ![a].waiting = 0]
  /\ UNCHANGED <<frameHandlers, shouldReconnect, config, sendCall, closed, timers, errorLog,
                 otherVars>>

\* The error event of a socket that has not opened reaches the ws.onerror of
\* open() (src/connection.ts:53-58).  A socket the connect timeout closed while
\* connecting fails, and the transport fires its error event too.
WsErrorBeforeOpen(a) ==
  /\ a \in 1..Len(sockets) /\ sockets[a].phase \in {"connecting", "timedout"}
  /\ connState' = "CLOSED"
  /\ errorLog' = ReportWaiting(
       Append(errorLog, HandleError(CONNECTION_ERROR, "Failed to connect")),
       sockets[a])
  /\ sockets' = [sockets EXCEPT ![a].phase = "done",
                                ![a].promise = Reject(sockets[a].promise),
                                ![a].waiting = 0]
  /\ UNCHANGED <<ws, reconnectMs, frameHandlers, shouldReconnect, config, sendCall, closed, timers,
                 otherVars>>

\* the connect timeout fires (src/connection.ts:39-42): reject, then ws.close()
ConnectTimeout(a) ==
  /\ a \in 1..Len(sockets) /\ sockets[a].phase = "connecting"
  /\ sockets' = [sockets EXCEPT ![a].phase = "timedout", ![a].promise = "rejected",
                                ![a].waiting = 0]
  /\ errorLog' = ReportWaiting(errorLog, sockets[a])
  /\ UNCHANGED <<connState, ws, reconnectMs, frameHandlers, shouldReconnect, config, sendCall,
                 closed, timers, otherVars>>

\* a bug: only the CLOSED state is refused
NotOpen_ClosedOnly(st, w) == st = "CLOSED"

\* sendFrame's test (src/connection.ts:130): TRUE = it throws 'WebSocket not open'
NotOpen(st, w) == st # "OPEN" \/ w = NoWs

\* this.ws.send(...) (src/connection.ts:134)
WsSend(socks, w) ==
  IF w = NoWs THEN socks ELSE [socks EXCEPT ![w].sent = @ + 1]

\* Connection.sendFrame (src/connection.ts:129-135), as SubscriptionManager
\* .subscribe calls it after its awaits (src/subscription.ts:61), possibly after
\* the facade was closed
SendFrame ==
  /\ IF NotOpen(connState, ws)
       THEN /\ sendCall' = [sendCall EXCEPT !.op = "sendFrame",
                            !.result = "not open", !.state = connState]
            /\ UNCHANGED sockets
       ELSE /\ ws # NoWs => sockets[ws].sent < MaxSends
            /\ sendCall' = [sendCall EXCEPT !.op = "sendFrame",
                            !.result = "sent", !.state = connState]
            /\ sockets' = WsSend(sockets, ws)
  /\ UNCHANGED <<connState, ws, reconnectMs, frameHandlers, shouldReconnect, config,
                 closed, timers, errorLog, otherVars>>

\* Connection.produce through the facade (src/index.ts:123-135,
\* src/source.ts:79-87, src/connection.ts:137-150).  OPEN: the frame is sent.
\* CONNECTING: open() returns at once and sendFrame throws.  CLOSED: open()
\* starts an attempt and the call sends when its promise resolves.
ProduceCall ==
  /\ ~closed
  /\ sendCall.produced < MaxProduce
  /\ LET call(result) == [op |-> "produce", result |-> result, state |-> connState,
                          produced |-> sendCall.produced + 1]
     IN IF connState = "OPEN" \/ OpenIsNoOp(connState)
          THEN /\ IF NotOpen(connState, ws)
                    THEN /\ sendCall' = call("not open")
                         /\ errorLog' = PublishFailed(errorLog)
                         /\ UNCHANGED sockets
                    ELSE /\ ws # NoWs => sockets[ws].sent < MaxSends
                         /\ sendCall' = call("sent")
                         /\ sockets' = WsSend(sockets, ws)
                         /\ UNCHANGED errorLog
               /\ UNCHANGED connState
          ELSE /\ Len(sockets) < MaxAttempts
               /\ connState' = "CONNECTING"
               /\ sockets' = Append(sockets,
                                    [NewAttempt("call") EXCEPT !.waiting = 1])
               /\ sendCall' = call("waiting")
               /\ UNCHANGED errorLog
  /\ UNCHANGED <<ws, reconnectMs, frameHandlers, shouldReconnect, config, closed,
                 timers, otherVars>>

\* the error event of an open socket (src/connection.ts:81-87): reported only
WsErrorOpen(a) ==
  /\ a \in 1..Len(sockets) /\ sockets[a].phase = "open" /\ ~sockets[a].erred
  /\ errorLog' = Append(errorLog, HandleError(CONNECTION_ERROR, "WebSocket error"))
  /\ sockets' = [sockets EXCEPT ![a].erred = TRUE]
  /\ UNCHANGED <<connState, ws, reconnectMs, frameHandlers, shouldReconnect, config, sendCall,
                 closed, timers, otherVars>>

\* ws.close(code, reason) on this.ws (src/connection.ts:163-165): the socket
\* starts its closing handshake; its handlers stay attached
CloseSocket(socks, w) ==
  IF w # NoWs /\ socks[w].phase = "open"
    THEN [socks EXCEPT ![w].phase = "closing"]
    ELSE socks

\* the timers that are set when close() is called, marked as such
MarkAtClose(ts) == [k \in 1..Len(ts) |-> [ts[k] EXCEPT !.atClose = TRUE]]

\* Exoquic.close (src/index.ts:170-177) and Connection.close
\* (src/connection.ts:156-170)
CloseCall ==
  /\ ~closed
  /\ closed' = TRUE
  /\ timers' = MarkAtClose(timers)
  /\ IF connState = "CLOSED"
       THEN UNCHANGED <<connState, ws, frameHandlers, sockets>>
       ELSE /\ sockets' = CloseSocket(sockets, ws)
            /\ connState' = "CLOSED"
            /\ ws' = NoWs
            /\ frameHandlers' = 0
  /\ UNCHANGED <<reconnectMs, shouldReconnect, config, sendCall, errorLog, otherVars>>

\* setTimeout(() => {...}, this.reconnectMs) of handleClose
\* (src/connection.ts:104-112)
NewTimer(ms) ==
  [delay |-> ms, wait |-> NextWait(ms, config.maxReconnectTimeout),
   atClose |-> FALSE]

\* ws.onclose -> handleClose (src/connection.ts:89-91, 94-113): the close event
\* of a socket that had opened, whether the server, the network or close() ended
\* it
WsCloses(a, code) ==
  /\ a \in 1..Len(sockets) /\ sockets[a].phase \in {"open", "closing"}
  /\ connState' = "CLOSED"
  /\ ws' = NoWs
  /\ sockets' = [sockets EXCEPT ![a].phase = "done"]
  /\ timers' = IF NoReconnect(code, shouldReconnect)
                 THEN timers
                 ELSE Append(timers, NewTimer(reconnectMs))
  /\ UNCHANGED <<reconnectMs, frameHandlers, shouldReconnect, config, sendCall, closed, errorLog,
                 otherVars>>

\* a reconnect timer fires (src/connection.ts:109-112)
TimerFires(k) ==
  /\ k \in 1..Len(timers)
  /\ reconnectMs' = timers[k].wait
  /\ timers' = RemoveAt(timers, k)
  /\ OpenBody("timer")
  /\ UNCHANGED <<ws, frameHandlers, shouldReconnect, config, sendCall, closed, errorLog, otherVars>>

\* ------------------------------------------------- the pipeline's actions
srcObs == <<srcCall, bufLog, relLog>>

\* An event frame arrives (src/connection.ts:69-72, 115-123; the frame handler of
\* src/subscription.ts:26-38): processEventFrame runs up to the db.get of getGid
\* (src/events.ts:29-41).  SourceManager.processEventFrame is not called.
EventFrameArrives(s, src, d, n) ==
  /\ fcount < MaxFrames
  /\ Len(tasks) < MaxTasks
  /\ fcount' = fcount + 1
  /\ lastGid' = IF d = NoDest THEN lastGid ELSE MapSet(lastGid, d, fcount + 1)
  /\ LET frame == MkEventFrame(s, src, d, fcount + 1, n, fcount + 1)
         act == MapGet(activeSources, s, NoSrc)
     IN IF frame.batch.destination = NoDest
          THEN UNCHANGED tasks
          ELSE tasks' = Append(tasks,
                 [BaseTask EXCEPT !.kind = "event", !.pc = "ev_gid",
                    !.store = "sids", !.mode = "ro", !.sid = frame.sid,
                    !.held = (act \in Srcs /\ frame.src # act),
                    !.batch = frame.batch, !.dest = frame.batch.destination,
                    !.got = GetSessionData(sidsStore, frame.batch.destination)])
  /\ UNCHANGED <<connVars, srcVars, sidsStore, eventsStore, destinationHandlers,
                 pendingSubscriptions, cacheEnabled, scount, delivered>>

\* getGid returned (src/events.ts:41-60): deliver, then updateGid up to its db.get
\* (src/session.ts:52); or return when a cursor is stored and the batch is empty
EvAfterGetGid(i) ==
  /\ At(i, "event", "ev_gid")
  /\ LET t == tasks[i]
         storedGid == t.got.gid
     IN IF storedGid = NoGid \/ Len(t.batch.data) > 0
          THEN LET r == ProcessEvent(eventsStore, delivered, destinationHandlers,
                                     cacheEnabled, [t.batch EXCEPT !.sid = t.sid],
                                     FALSE, "frame", t.held)
               IN /\ eventsStore' = r.events
                  /\ delivered' = r.log
                  /\ tasks' = Reissue(i, [t EXCEPT !.pc = "ev_upd",
                                 !.store = "sids", !.mode = "ro",
                                 !.noCursor = (storedGid = NoGid),
                                 !.got = GetSessionData(sidsStore, t.dest)])
          ELSE /\ tasks' = RemoveAt(tasks, i)
               /\ UNCHANGED <<eventsStore, delivered>>
  /\ UNCHANGED <<connVars, srcVars, frameVars, sidsStore, destinationHandlers,
                 pendingSubscriptions, cacheEnabled, scount>>

\* the db.get of updateGid returned (src/session.ts:52-56): put the record with
\* the new gid, or return when there is no record
EvAfterUpdGet(i) ==
  /\ At(i, "event", "ev_upd")
  /\ LET t == tasks[i]
     IN IF t.got # NoRec
          THEN /\ sidsStore' = UpdateGidPut(sidsStore, t.dest, t.got, t.batch.gid)
               /\ tasks' = Reissue(i, [t EXCEPT !.pc = "ev_put", !.mode = "rw"])
          ELSE /\ tasks' = RemoveAt(tasks, i)
               /\ UNCHANGED sidsStore
  /\ UNCHANGED <<connVars, srcVars, frameVars, eventsStore, destinationHandlers,
                 pendingSubscriptions, cacheEnabled, scount, delivered>>

\* the db.put of updateGid returned: processEventFrame returns
EvAfterPut(i) ==
  /\ At(i, "event", "ev_put")
  /\ tasks' = RemoveAt(tasks, i)
  /\ UNCHANGED <<connVars, srcVars, frameVars, sidsStore, eventsStore, destinationHandlers,
                 pendingSubscriptions, cacheEnabled, scount, delivered>>

\* An onsrc frame arrives: EventProcessor.processSourceChange (src/events.ts:63-71)
\* runs to its end, delivering each released batch
OnSrcArrives(frame) ==
  /\ LET r == HandleSourceChange(activeSources, bufferedEvents, frame)
         e == ProcessEvents(eventsStore, delivered, destinationHandlers,
                            cacheEnabled, r.ret, FALSE, "release")
     IN /\ activeSources' = r.act
        /\ bufferedEvents' = r.buf
        /\ eventsStore' = e.events
        /\ delivered' = e.log
  /\ UNCHANGED <<connVars, srcObs, frameVars, sidsStore, destinationHandlers,
                 pendingSubscriptions, cacheEnabled, tasks, scount>>

InitS == InitSource /\ InitPipe /\ InitConn /\ fcount = 0 /\ lastGid = EmptyMap

\* Each specification leaves at its default (src/types.ts:53-56) the option
\* that none of its actions reads.
InitPipeline == InitS /\ shouldReconnect /\ config = DefaultConfig
InitSourceManager == InitPipeline /\ cacheEnabled
InitConnection == InitS /\ cacheEnabled

\* the destination lists passed to subscribe() and onEvent()
DestLists == {<<"d1">>, <<"d1", "d2">>}

RECURSIVE AddListeners(_, _, _)
AddListeners(dh, dests, h) ==
  IF dests = <<>> THEN dh
  ELSE AddListeners(AddListener(dh, Head(dests), h), Tail(dests), h)

\* Exoquic.onEvent (src/index.ts:161-168)
OnEvent(dests, h) ==
  /\ destinationHandlers' = AddListeners(destinationHandlers, dests, h)
  /\ UNCHANGED <<connVars, srcVars, frameVars, sidsStore, eventsStore, pendingSubscriptions,
                 cacheEnabled, tasks, scount, delivered>>

\* Exoquic.subscribe (src/index.ts:104-121) on an open connection, into
\* SubscriptionManager.subscribe up to the first getSessionData
\* (src/subscription.ts:42-48)
SubscribeCall(dests, withHandler) ==
  /\ scount < MaxSubs
  /\ Len(tasks) < MaxTasks
  /\ scount' = scount + 1
  /\ destinationHandlers' = IF withHandler
                              THEN AddListeners(destinationHandlers, dests, "h1")
                              ELSE destinationHandlers
  /\ tasks' = Append(tasks,
       [BaseTask EXCEPT !.kind = "subscribe", !.pc = "sub_get", !.store = "sids",
          !.mode = "ro", !.todo = dests,
          !.got = GetSessionData(sidsStore, Head(dests))])
  /\ UNCHANGED <<connVars, srcVars, frameVars, sidsStore, eventsStore, pendingSubscriptions,
                 cacheEnabled, delivered>>

\* getSessionData returned (src/subscription.ts:48-61): record the pending
\* subscription under a random cid, send the frame, go on to the next destination
SubAfterGet(i, cid) ==
  /\ At(i, "subscribe", "sub_get")
  /\ LET t == tasks[i]
         subscribeFrame == [cid |-> cid, destination |-> Head(t.todo),
                            sid |-> t.got.sid, gid |-> t.got.gid]
     IN /\ pendingSubscriptions' = PendingSet(pendingSubscriptions, subscribeFrame)
        /\ tasks' = IF Tail(t.todo) = <<>> THEN RemoveAt(tasks, i)
                    ELSE Reissue(i, [t EXCEPT !.todo = Tail(t.todo),
                           !.got = GetSessionData(sidsStore, Head(Tail(t.todo)))])
  /\ UNCHANGED <<connVars, srcVars, frameVars, sidsStore, eventsStore, destinationHandlers,
                 cacheEnabled, scount, delivered>>

\* A suback frame arrives: handleSubAck up to its first await
\* (src/subscription.ts:66-105)
SubAckArrives(newSid) ==
  /\ Len(tasks) < MaxTasks
  /\ IF ~Matched(pendingSubscriptions)
       THEN UNCHANGED <<sidsStore, pendingSubscriptions, tasks>>
       ELSE LET m == pendingSubscriptions[1]
                t == [BaseTask EXCEPT !.kind = "suback", !.sid = newSid,
                        !.dest = m.destination, !.cid = m.cid,
                        !.storedAt = GetSessionData(sidsStore, m.destination).sid,
                        !.got = [sid |-> m.sid, gid |-> m.gid]]
            IN IF m.sid = NoSid
                 THEN /\ sidsStore' = StoreSessionId(sidsStore, newSid, m.destination)
                      /\ tasks' = Append(tasks, [t EXCEPT !.pc = "ack_store",
                                           !.store = "sids", !.mode = "rw"])
                      /\ UNCHANGED pendingSubscriptions
                 ELSE IF m.sid # newSid
                 THEN /\ tasks' = Append(tasks, [t EXCEPT !.pc = "ack_clear",
                             !.store = "events", !.mode = "ro",
                             !.snap = EventsByDestination(eventsStore, m.destination)])
                      /\ UNCHANGED <<sidsStore, pendingSubscriptions>>
                 ELSE IF cacheEnabled
                 THEN /\ tasks' = Append(tasks, [t EXCEPT !.pc = "ack_replay",
                             !.store = "events", !.mode = "ro",
                             !.snap = GetEventsBySid(eventsStore, cacheEnabled, newSid)])
                      /\ UNCHANGED <<sidsStore, pendingSubscriptions>>
                 ELSE /\ pendingSubscriptions' =
                           PendingDelete(pendingSubscriptions, m.cid)
                      /\ UNCHANGED <<sidsStore, tasks>>
  /\ UNCHANGED <<connVars, srcVars, frameVars, eventsStore, destinationHandlers, cacheEnabled,
                 scount, delivered>>

\* handleSubAck returns: the matched entry is deleted (src/subscription.ts:109-110)
AckReturn(i) ==
  LET t == tasks[i]
  IN /\ pendingSubscriptions' = PendingDelete(pendingSubscriptions, t.cid)
     /\ tasks' = RemoveAt(tasks, i)

\* the getAllFromIndex of clearEventsByDestination returned
\* (src/session.ts:118-123): the delete loop throws on its first entry and the
\* catch of handleSubAck (src/subscription.ts:99-101) ends the reset; with no
\* entry the empty transaction is awaited
AckAfterClearRead(i) ==
  /\ At(i, "suback", "ack_clear")
  /\ UNCHANGED <<sidsStore, eventsStore>>
  /\ IF ClearEventsThrows(tasks[i].snap)
       THEN AckReturn(i)
       ELSE /\ tasks' = Reissue(i, [tasks[i] EXCEPT !.pc = "ack_cleared",
                                      !.mode = "rw"])
            /\ UNCHANGED pendingSubscriptions
  /\ UNCHANGED <<connVars, srcVars, frameVars, destinationHandlers, cacheEnabled, scount,
                 delivered>>

\* clearEventsByDestination returned: removeDestination (src/subscription.ts:93)
AckAfterCleared(i) ==
  /\ At(i, "suback", "ack_cleared")
  /\ sidsStore' = RemoveDestination(sidsStore, tasks[i].dest)
  /\ tasks' = Reissue(i, [tasks[i] EXCEPT !.pc = "ack_removed", !.store = "sids",
                            !.mode = "rw"])
  /\ UNCHANGED <<connVars, srcVars, frameVars, eventsStore, destinationHandlers,
                 pendingSubscriptions, cacheEnabled, scount, delivered>>

\* removeDestination returned: storeSessionId (src/subscription.ts:96)
AckAfterRemoved(i) ==
  /\ At(i, "suback", "ack_removed")
  /\ sidsStore' = StoreSessionId(sidsStore, tasks[i].sid, tasks[i].dest)
  /\ tasks' = Reissue(i, [tasks[i] EXCEPT !.pc = "ack_store"])
  /\ UNCHANGED <<connVars, srcVars, frameVars, eventsStore, destinationHandlers,
                 pendingSubscriptions, cacheEnabled, scount, delivered>>

\* storeSessionId returned or threw (src/session.ts:37-42).  In the first-time
\* branch (src/subscription.ts:80-82) nothing catches the error: handleSubAck
\* ends there, before the delete of the pending entry.  In the reset branch the
\* catch (src/subscription.ts:99-101) swallows it.
AckAfterStore(i) ==
  /\ At(i, "suback", "ack_store")
  /\ UNCHANGED <<sidsStore, eventsStore>>
  /\ IF tasks[i].failed /\ tasks[i].got.sid = NoSid
       THEN /\ tasks' = RemoveAt(tasks, i)
            /\ UNCHANGED pendingSubscriptions
       ELSE AckReturn(i)
  /\ UNCHANGED <<connVars, srcVars, frameVars, destinationHandlers, cacheEnabled, scount,
                 delivered>>

\* A suback frame arrives for a request sent with no sid, and the put of
\* storeSessionId fails (the transaction aborts: quota, a closing database):
\* nothing is written, and the await of src/subscription.ts:82 will throw.
SubAckArrivesPutFails(newSid) ==
  /\ Len(tasks) < MaxTasks
  /\ Matched(pendingSubscriptions)
  /\ LET m == pendingSubscriptions[1]
     IN /\ m.sid = NoSid
        /\ tasks' = Append(tasks,
             [BaseTask EXCEPT !.kind = "suback", !.pc = "ack_store",
                !.store = "sids", !.mode = "rw", !.sid = newSid,
                !.dest = m.destination, !.cid = m.cid,
                !.storedAt = GetSessionData(sidsStore, m.destination).sid,
                !.got = [sid |-> m.sid, gid |-> m.gid], !.failed = TRUE])
  /\ UNCHANGED <<connVars, srcVars, frameVars, sidsStore, eventsStore,
                 destinationHandlers, pendingSubscriptions, cacheEnabled, scount,
                 delivered>>

\* removeDestination returned, and the put of storeSessionId
\* (src/subscription.ts:96) fails
AckAfterRemovedPutFails(i) ==
  /\ At(i, "suback", "ack_removed")
  /\ tasks' = Reissue(i, [tasks[i] EXCEPT !.pc = "ack_store", !.failed = TRUE])
  /\ UNCHANGED <<connVars, srcVars, frameVars, sidsStore, eventsStore,
                 destinationHandlers, pendingSubscriptions, cacheEnabled, scount,
                 delivered>>

\* getEventsBySid returned (src/subscription.ts:105-106): every cached batch is
\* run through processEvent with skipCache, in order
AckAfterReplayRead(i) ==
  /\ At(i, "suback", "ack_replay")
  /\ LET r == ProcessEvents(eventsStore, delivered, destinationHandlers,
                            cacheEnabled, tasks[i].snap, TRUE, "replay")
     IN /\ eventsStore' = r.events
        /\ delivered' = r.log
  /\ UNCHANGED sidsStore
  /\ AckReturn(i)
  /\ UNCHANGED <<connVars, srcVars, frameVars, destinationHandlers, cacheEnabled, scount>>

\* The event frames of Spec: no onsrc frame arrives there and activeSources stays
\* empty, so one source tag stands for all (the pipeline never reads a frame's
\* src); the server stamps them with the first session it issued; they are for
\* "d1" or carry no destination.
\* SubscriptionManager.subscribe called with the connection in any state
\* (src/index.ts:104-121, src/subscription.ts:42-48).  OPEN: the first
\* getSessionData is issued.  CONNECTING: open() returns at once and the call
\* goes on the same way.  CLOSED: open() starts an attempt and the call awaits
\* its promise.
SubscribeOnConn(dests) ==
  /\ ~closed
  /\ scount < MaxSubs
  /\ Len(tasks) < MaxTasks
  /\ scount' = scount + 1
  /\ IF OpenIsNoOp(connState)
       THEN /\ tasks' = Append(tasks,
                 [BaseTask EXCEPT !.kind = "subscribe", !.pc = "sub_get",
                    !.store = "sids", !.mode = "ro", !.todo = dests,
                    !.got = GetSessionData(sidsStore, Head(dests))])
            /\ UNCHANGED <<connState, sockets>>
       ELSE /\ OpenBody("call")
            /\ tasks' = Append(tasks,
                 [BaseTask EXCEPT !.kind = "subscribe", !.pc = "sub_open",
                    !.todo = dests, !.att = Len(sockets) + 1])
  /\ UNCHANGED <<ws, reconnectMs, frameHandlers, shouldReconnect, config, closed, timers,
                 errorLog, sendCall, srcVars, frameVars, sidsStore, eventsStore,
                 destinationHandlers, pendingSubscriptions, cacheEnabled, delivered>>

\* the promise of the attempt subscribe() awaits settled (src/subscription.ts:
\* 43-48): resolved, the first getSessionData is issued; rejected, subscribe()
\* throws
SubAfterOpen(i) ==
  /\ At(i, "subscribe", "sub_open")
  /\ sockets[tasks[i].att].promise # "pending"
  /\ tasks' = IF sockets[tasks[i].att].promise = "resolved"
                THEN Reissue(i, [tasks[i] EXCEPT !.pc = "sub_get", !.store = "sids",
                       !.mode = "ro",
                       !.got = GetSessionData(sidsStore, Head(tasks[i].todo))])
                ELSE RemoveAt(tasks, i)
  /\ UNCHANGED <<connVars, srcVars, frameVars, sidsStore, eventsStore, destinationHandlers,
                 pendingSubscriptions, cacheEnabled, scount, delivered>>

\* getSessionData returned (src/subscription.ts:48-61): the pending entry is
\* recorded, then sendFrame either writes the frame and the loop goes on to the
\* next destination, or throws 'WebSocket not open' out of subscribe()
SubAfterGetSend(i, cid) ==
  /\ At(i, "subscribe", "sub_get")
  /\ LET t == tasks[i]
         subscribeFrame == [cid |-> cid, destination |-> Head(t.todo),
                            sid |-> t.got.sid, gid |-> t.got.gid]
     IN /\ pendingSubscriptions' = PendingSet(pendingSubscriptions, subscribeFrame)
        /\ IF NotOpen(connState, ws)
             THEN /\ sendCall' = [sendCall EXCEPT !.op = "sendFrame",
                                  !.result = "not open", !.state = connState]
                  /\ tasks' = RemoveAt(tasks, i)
                  /\ UNCHANGED sockets
             ELSE /\ sendCall' = [sendCall EXCEPT !.op = "sendFrame",
                                  !.result = "sent", !.state = connState]
                  /\ sockets' = WsSend(sockets, ws)
                  /\ tasks' = IF Tail(t.todo) = <<>> THEN RemoveAt(tasks, i)
                              ELSE Reissue(i, [t EXCEPT !.todo = Tail(t.todo),
                                     !.got = GetSessionData(sidsStore,
                                                            Head(Tail(t.todo)))])
  /\ UNCHANGED <<connState, ws, reconnectMs, frameHandlers, shouldReconnect, config,
                 closed, timers, errorLog, srcVars, frameVars, sidsStore, eventsStore,
                 destinationHandlers, cacheEnabled, scount, delivered>>

PipeSrcs == {1}
PipeSids == {"s1"}
PipeDests == {"d1", NoDest}

\* the source tags of SpecFailover
EventSrcs == {1, 2}

\* Subscriptions, acknowledgments and event frames.  onsrc frames are left to
\* SpecFailover: in the pipeline they change activeSources alone, which no
\* handler reads.
Next ==
  \/ \E s \in PipeSids, src \in PipeSrcs, d \in PipeDests, n \in BatchSizes :
       EventFrameArrives(s, src, d, n)
  \/ \E i \in 1..MaxTasks : EvAfterGetGid(i)
  \/ \E i \in 1..MaxTasks : EvAfterUpdGet(i)
  \/ \E i \in 1..MaxTasks : EvAfterPut(i)
  \/ \E dests \in DestLists : SubscribeCall(dests, TRUE)
  \/ \E i \in 1..MaxTasks, cid \in Cids : SubAfterGet(i, cid)
  \/ \E s \in Sids : SubAckArrives(s)
  \/ \E i \in 1..MaxTasks : AckAfterClearRead(i)
  \/ \E i \in 1..MaxTasks : AckAfterCleared(i)
  \/ \E i \in 1..MaxTasks : AckAfterRemoved(i)
  \/ \E i \in 1..MaxTasks : AckAfterStore(i)
  \/ \E i \in 1..MaxTasks : AckAfterReplayRead(i)

\* Event frames and onsrc frames with listeners registered and no subscription
NextFailover ==
  \/ \E dests \in DestLists : OnEvent(dests, "h1")
  \/ \E s \in Sids, src \in EventSrcs, d \in Dests, n \in BatchSizes :
       EventFrameArrives(s, src, d, n)
  \/ \E i \in 1..MaxTasks : EvAfterGetGid(i)
  \/ \E i \in 1..MaxTasks : EvAfterUpdGet(i)
  \/ \E f \in [sid : Sids, src : EventSrcs] : OnSrcArrives(f)

Spec == InitPipeline /\ [][Next]_vars

SpecFailover == InitPipeline /\ [][NextFailover]_vars

NextSource ==
  \/ \E s \in Sids, src \in Srcs : SourceEvent(s, src)
  \/ \E f \in OnSrcFrames : SourceChange(f)

SpecSource == InitSourceManager /\ [][NextSource]_vars

\* Subscriptions and acknowledgments with a session store whose puts may fail
NextStoreFail ==
  \/ \E dests \in DestLists : SubscribeCall(dests, TRUE)
  \/ \E i \in 1..MaxTasks, cid \in Cids : SubAfterGet(i, cid)
  \/ \E s \in Sids : SubAckArrives(s)
  \/ \E s \in Sids : SubAckArrivesPutFails(s)
  \/ \E i \in 1..MaxTasks : AckAfterClearRead(i)
  \/ \E i \in 1..MaxTasks : AckAfterCleared(i)
  \/ \E i \in 1..MaxTasks : AckAfterRemoved(i)
  \/ \E i \in 1..MaxTasks : AckAfterRemovedPutFails(i)
  \/ \E i \in 1..MaxTasks : AckAfterStore(i)
  \/ \E i \in 1..MaxTasks : AckAfterReplayRead(i)

SpecStoreFail == InitPipeline /\ [][NextStoreFail]_vars

Attempts == 1..MaxAttempts

NextConn ==
  \/ OpenCall
  \/ CloseCall
  \/ \E a \in Attempts : JwtResolves(a)
  \/ \E a \in Attempts : JwtRejects(a)
  \/ \E a \in Attempts : WsOpens(a)
  \/ \E a \in Attempts : WsErrorBeforeOpen(a)
  \/ \E a \in Attempts : ConnectTimeout(a)
  \/ \E a \in Attempts : WsErrorOpen(a)
  \/ \E a \in Attempts, code \in CloseCodes : WsCloses(a, code)
  \/ \E k \in Attempts : TimerFires(k)
  \/ SendFrame
  \/ ProduceCall

SpecConn == InitConnection /\ [][NextConn]_vars

\* subscribe() on a connection that opens, fails to open and drops
InitSubscribe == InitS /\ cacheEnabled /\ ~shouldReconnect /\ config = DefaultConfig

NextSubscribe ==
  \/ \E dests \in DestLists : SubscribeOnConn(dests)
  \/ \E i \in 1..MaxTasks : SubAfterOpen(i)
  \/ \E i \in 1..MaxTasks, cid \in Cids : SubAfterGetSend(i, cid)
  \/ \E a \in Attempts : JwtResolves(a)
  \/ \E a \in Attempts : JwtRejects(a)
  \/ \E a \in Attempts : WsOpens(a)
  \/ \E a \in Attempts, code \in CloseCodes : WsCloses(a, code)

SpecSubscribe == InitSubscribe /\ [][NextSubscribe]_vars

\* ------------------------------------------------- claims on the SourceManager
BufferOf(s) == MapGet(bufferedEvents, s, <<>>)

IsFailoverCall == srcCall.op = "onsrc" /\ srcCall.old = 1 /\ srcCall.src = 2

\* C2: when handleSourceChange moves a sid's active source from 1 to 2 it returns
\* every batch buffered for the sid, in buffering order, and the sid's buffer is
\* gone afterwards; over any sequence of calls, the batches released so far
\* followed by the batches still buffered are exactly the batches ever buffered,
\* in order, each once.
C2_FailoverReleasesOnceInOrder ==
  /\ \A s \in Sids : relLog[s] \o Fids(BufferOf(s)) = bufLog[s]
  /\ IsFailoverCall =>
       /\ srcCall.sid \notin DOMAIN bufferedEvents
       /\ relLog[srcCall.sid] = bufLog[srcCall.sid]
       /\ LET n == Len(relLog[srcCall.sid]) - Len(srcCall.ret)
          IN /\ n >= 0
             /\ Fids(srcCall.ret) = SubSeq(relLog[srcCall.sid], n + 1, n + Len(srcCall.ret))

\* a second failover of a sid, releasing the two batches buffered since the
\* first one released a batch
C2_Witness ==
  /\ IsFailoverCall
  /\ Len(srcCall.ret) >= 2
  /\ Len(relLog[srcCall.sid]) > Len(srcCall.ret)

\* C3: an onsrc frame that is not a transition from active source 1 to source 2
\* makes handleSourceChange return no batch and leaves every buffer as it was.
C3_OtherTransitionsReleaseNothing ==
  [][\A f \in OnSrcFrames :
       (SourceChange(f) /\ ~(MapGet(activeSources, f.sid, NoSrc) = 1 /\ f.src = 2))
         => /\ srcCall'.ret = <<>>
            /\ bufferedEvents' = bufferedEvents
            /\ relLog' = relLog]_vars

\* a switch 2 -> 1 (and a first observation) with batches waiting in the buffer
C3_Witness ==
  /\ srcCall.op = "onsrc"
  /\ srcCall.old = 2 /\ srcCall.src = 1
  /\ BufferOf(srcCall.sid) # <<>>

\* ------------------------------------------------------ claims on the pipeline
\* C1: an event frame whose src differs from the active source recorded for its
\* sid is not dispatched to listeners by the frame's own handler; listeners see
\* its batch only through the release that an onsrc 1 -> 2 triggers.
\* (`held` marks a frame that arrived with a source other than the recorded one.)
C1_HeldFrameNotDispatched ==
  \A k \in 1..Len(delivered) : delivered[k].via = "frame" => ~delivered[k].held

\* processEventFrame returns in this step
EventReturns(i) ==
  /\ i \in 1..Len(tasks)
  /\ tasks[i].kind = "event"
  /\ tasks' = RemoveAt(tasks, i)
  /\ EvAfterGetGid(i) \/ EvAfterUpdGet(i) \/ EvAfterPut(i)

\* handleSubAck returns in this step
SubAckReturns(i) ==
  /\ i \in 1..Len(tasks)
  /\ tasks[i].kind = "suback"
  /\ tasks' = RemoveAt(tasks, i)
  /\ AckAfterClearRead(i) \/ AckAfterStore(i) \/ AckAfterReplayRead(i)

\* C4: when handleSubAck returns for an acknowledgment whose sid differed from
\* the sid stored for the destination it was applied to (the sid the subscribe
\* request had read from the store and sent), the destination's SessionRecord
\* holds the new sid and the cache holds no entry for the destination.
C4_SessionReset ==
  [][\A i \in 1..MaxTasks :
       (/\ SubAckReturns(i)
        /\ tasks[i].storedAt \notin {NoSid, tasks[i].sid}
        /\ tasks[i].storedAt = tasks[i].got.sid)
         => /\ GetSessionData(sidsStore', tasks[i].dest).sid = tasks[i].sid
            /\ EventsByDestination(eventsStore', tasks[i].dest) = <<>>]_vars

\* the step in which processEventFrame, having found no stored cursor, delivers
\* the batch of its frame
FirstDelivery(i) ==
  /\ i \in 1..Len(tasks)
  /\ tasks[i].pc = "ev_gid"
  /\ tasks[i].got.gid = NoGid
  /\ EvAfterGetGid(i)

\* the listener invocations added in this step
NewlyDelivered == SubSeq(delivered', Len(delivered) + 1, Len(delivered'))

\* C5: a frame that finds no stored cursor is delivered to every listener of
\* its destination, once each, with exactly the payloads of its batch in order;
\* and when processEventFrame returns for such a frame, the stored cursor of
\* the destination is the batch's gid.
C5_FirstBatchAndCursor ==
  [][\A i \in 1..MaxTasks :
       /\ FirstDelivery(i)
            => /\ Len(NewlyDelivered)
                    = Len(HandlersOf(destinationHandlers, tasks[i].dest))
               /\ \A k \in 1..Len(NewlyDelivered) :
                    /\ NewlyDelivered[k].data = EventData(tasks[i].batch)
                    /\ NewlyDelivered[k].fid = tasks[i].batch.fid
       /\ (EventReturns(i) /\ tasks[i].noCursor)
            => GetSessionData(sidsStore', tasks[i].dest).gid = tasks[i].batch.gid]_vars

\* ------------------------------------------------------------ C6 .. C10
InFlight(socks) == {a \in 1..Len(socks) : socks[a].phase \in {"jwt", "connecting"}}
Live(socks) == {a \in 1..Len(socks) : socks[a].phase = "open"}

\* C6: once close() has been called, a close event the transport reports
\* afterwards sets no reconnect timer and starts no connection attempt.
C6_NoReconnectAfterClose ==
  [][\A a \in Attempts, code \in CloseCodes :
       (closed /\ WsCloses(a, code))
         => /\ timers' = timers
            /\ Len(sockets') = Len(sockets)]_vars

\* C7: a reconnect timer that was set when close() was called does nothing
\* when it fires: no connection attempt starts and the connection stays closed.
C7_TimerAfterCloseIsNoOp ==
  [][\A k \in Attempts :
       (TimerFires(k) /\ timers[k].atClose)
         => /\ Len(sockets') = Len(sockets)
            /\ connState' = "CLOSED"]_vars

\* C8: with reconnect enabled and no close() called, when an attempt the
\* reconnect loop started fails, another attempt is scheduled or under way.
C8_FailedReconnectIsRetried ==
  [][\A a \in Attempts :
       (/\ shouldReconnect /\ ~closed
        /\ a <= Len(sockets) /\ sockets[a].origin = "timer"
        /\ JwtRejects(a) \/ WsErrorBeforeOpen(a))
         => \/ timers' # <<>>
            \/ InFlight(sockets') # {}]_vars

\* C9: the step that rejects the promise of an open() call leaves the state
\* CLOSED and reports connection_error on the error channel.
C9_FailedAttemptClosesAndReports ==
  [][\A a \in Attempts :
       (/\ a <= Len(sockets) /\ sockets[a].promise = "pending"
        /\ sockets'[a].promise = "rejected")
         => /\ connState' = "CLOSED"
            /\ \E k \in (Len(errorLog) + 1)..Len(errorLog') :
                 errorLog'[k].code = CONNECTION_ERROR]_vars

\* C10: at most one connection attempt is in flight and at most one transport
\* is live at any time.
C10_OneAttemptOneTransport ==
  /\ Cardinality(InFlight(sockets)) <= 1
  /\ Cardinality(Live(sockets)) <= 1

\* ------------------------------------------------------------ C11 .. C12
\* C11: the delay of every reconnect timer that handleClose has set is at most
\* maxReconnectTimeout.
C11_DelayAtMostMax ==
  \A k \in 1..Len(timers) : timers[k].delay <= config.maxReconnectTimeout

\* C12: the first reconnect timer set after a successful open (the close event
\* is that of the socket that opened last, and the connection has been OPEN on
\* it since) waits exactly the configured reconnectTimeout.
C12_FirstReconnectWaitsInitial ==
  [][\A a \in Attempts, code \in CloseCodes :
       (/\ WsCloses(a, code)
        /\ connState = "OPEN" /\ ws = a
        /\ Len(timers') > Len(timers))
         => timers'[Len(timers')].delay = config.reconnectTimeout]_vars

\* ------------------------------------------------------------ C13 .. C20
\* the pending entries that an acknowledgment being handled has already matched
InHandling == {tasks[j].cid : j \in {i \in 1..Len(tasks) : tasks[i].kind = "suback"}}

\* The server acknowledges subscribe requests in the order they were sent, one
\* suback each, and a suback carries no cid: the next acknowledgment answers the
\* oldest pending request that no acknowledgment has been matched to yet.
\* 0 = there is none.
Answered(p) ==
  LET open == {i \in 1..Len(p) : p[i].cid \notin InHandling}
  IN IF open = {} THEN 0 ELSE CHOOSE i \in open : \A j \in open : i <= j

\* C13: when the acknowledgment arrives that answers a request sent with no
\* sid (no SessionRecord was stored for its destination), handling it puts the
\* record {destination, sid of the acknowledgment, no cursor} for that
\* destination and changes the record of no other destination.
C13_FirstAckCreatesRecord ==
  [][\A s \in Sids :
       LET a == Answered(pendingSubscriptions)
       IN (/\ SubAckArrives(s)
           /\ a # 0
           /\ pendingSubscriptions[a].sid = NoSid
           /\ pendingSubscriptions[a].cid # 0)
            => sidsStore' = StoreSessionId(sidsStore, s,
                                           pendingSubscriptions[a].destination)]_vars

\* C14: replaying the cached batches of a sid on a reconfirmed acknowledgment
\* writes nothing to the cache, neither when the replay reads the cache nor
\* when it runs the batches through processEvent, however often it is repeated.
C14_ReplayDoesNotCache ==
  [][/\ \A i \in 1..MaxTasks : AckAfterReplayRead(i) => eventsStore' = eventsStore
     /\ \A s \in Sids : SubAckArrives(s) => eventsStore' = eventsStore]_vars

\* one cached batch has been replayed to the same listener twice, and is cached
C14_Witness ==
  /\ eventsStore # <<>>
  /\ \E j, k \in 1..Len(delivered) :
       /\ j < k
       /\ delivered[j].via = "replay" /\ delivered[k].via = "replay"
       /\ delivered[j].fid = delivered[k].fid
       /\ delivered[j].handler = delivered[k].handler
       /\ delivered[j].dest = delivered[k].dest

\* C15: when the handling of an acknowledgment that matched a pending entry
\* ends, whichever branch it took and whether or not a store operation failed,
\* that entry is no longer pending.
C15_MatchedEntryRemoved ==
  [][\A i \in 1..MaxTasks :
       SubAckReturns(i)
         => \A k \in 1..Len(pendingSubscriptions') :
              pendingSubscriptions'[k].cid # tasks[i].cid]_vars

\* C16: in every reachable state no two pending subscriptions are for the same
\* destination.
C16_OnePendingPerDestination ==
  \A j, k \in 1..Len(pendingSubscriptions) :
    j # k => pendingSubscriptions[j].destination # pendingSubscriptions[k].destination

\* the frames written to each socket, and the calls waiting to write to it
Wire(socks) == [a \in 1..Len(socks) |-> <<socks[a].sent, socks[a].waiting>>]

\* C17: sendFrame called in a state other than OPEN, and produce() called while
\* a connection attempt is in flight, fail with 'not open', write nothing to any
\* socket and leave nothing waiting to be sent.
C17_SendFrameNotOpen ==
  [][((SendFrame /\ connState # "OPEN") \/ (ProduceCall /\ connState = "CONNECTING"))
       => /\ sendCall'.result = "not open"
          /\ Wire(sockets') = Wire(sockets)]_vars

\* produce() was called while a connection attempt was in flight and failed
C17_Witness ==
  /\ sendCall.op = "produce"
  /\ sendCall.state = "CONNECTING"
  /\ sendCall.result = "not open"
  /\ InFlight(sockets) # {}

\* the event frames for destination d whose handling has not finished
EventTasks(ts, d) == {i \in 1..Len(ts) : ts[i].kind = "event" /\ ts[i].dest = d}

\* C18: when the handling of the event frames of one destination has finished
\* (the last of their handlers returns, having written its cursor, and no
\* subscription or acknowledgment is being handled), the stored cursor of the
\* destination is the gid of the batch that arrived last for it.
C18_CursorIsLastArrived ==
  [][\A i \in 1..MaxTasks :
       (/\ EventReturns(i)
        /\ EvAfterPut(i)
        /\ \A j \in 1..Len(tasks) : tasks[j].kind = "event"
        /\ EventTasks(tasks', tasks[i].dest) = {})
         => GetSessionData(sidsStore', tasks[i].dest).gid
              = MapGet(lastGid, tasks[i].dest, NoGid)]_vars

\* handleSubAck took the session-reset branch (src/subscription.ts:83): the
\* request carried a sid and the acknowledgment carries another
IsReset(t) == t.kind = "suback" /\ t.got.sid \notin {NoSid, t.sid}

\* C19: when a session reset that ran its three steps returns, with nothing but
\* event frames handled beside it and no event frame of the destination still
\* being handled, the destination's
\* SessionRecord holds the new sid and no cursor, and the cache holds no batch
\* of the destination stored under the old sid.
C19_ResetAtomicWithEvents ==
  [][\A i \in 1..MaxTasks :
       (/\ SubAckReturns(i)
        /\ AckAfterStore(i)
        /\ IsReset(tasks[i])
        /\ \A j \in 1..Len(tasks) : j # i => tasks[j].kind = "event"
        /\ EventTasks(tasks', tasks[i].dest) = {})
         => LET old == tasks[i].got.sid
                rec == GetSessionData(sidsStore', tasks[i].dest)
                cached == EventsByDestination(eventsStore', tasks[i].dest)
            IN /\ rec.sid = tasks[i].sid
               /\ rec.gid = NoGid
               /\ \A k \in 1..Len(cached) : cached[k].sid # old]_vars

\* C20: when an acknowledgment starts being handled for the request it
\* answers, and the sid stored for that request's destination equals the
\* acknowledgment's sid, the sids store is left as it is and the only work
\* started is the replay of the cached batches.
C20_ConfirmedSessionUnchanged ==
  [][\A s \in Sids :
       (/\ SubAckArrives(s)
        /\ Matched(pendingSubscriptions)
        /\ Answered(pendingSubscriptions) = 1
        /\ GetSessionData(sidsStore, pendingSubscriptions[1].destination).sid = s)
         => /\ sidsStore' = sidsStore
            /\ Len(tasks') > Len(tasks) => tasks'[Len(tasks')].pc = "ack_replay"]_vars

\* C21: at most one reconnect timer is outstanding after every step, and a
\* timer that fires while the connection is OPEN (a manual open() succeeded
\* before it) changes neither the connection state nor the backoff delay.
C21_OneTimerAndStaleTimerIsNoOp ==
  [][/\ Len(timers') <= 1
     /\ \A k \in 1..Len(timers) :
          (TimerFires(k) /\ connState = "OPEN")
            => connState' = connState /\ reconnectMs' = reconnectMs]_vars

\* C22: the correlation id subscribe() gives a request is not the id of a
\* pending entry, and recording the request keeps every pending entry as it
\* was and adds one.
C22_FreshCorrelationId ==
  [][\A i \in 1..MaxTasks, cid \in Cids :
       SubAfterGet(i, cid)
         => /\ \A k \in 1..Len(pendingSubscriptions) :
                 pendingSubscriptions[k].cid # cid
            /\ Len(pendingSubscriptions') = Len(pendingSubscriptions) + 1
            /\ SubSeq(pendingSubscriptions', 1, Len(pendingSubscriptions))
                 = pendingSubscriptions]_vars

\* handleSubAck, started in this step for sid s, works on pending entry m: it
\* either suspends on a store operation for m's destination or has already
\* returned with m deleted
Consumes(s, m) ==
  \/ /\ Len(tasks') = Len(tasks) + 1
     /\ LET t == tasks'[Len(tasks')]
        IN /\ t.kind = "suback"
           /\ t.sid = s
           /\ t.cid = m.cid
           /\ t.dest = m.destination
  \/ /\ tasks' = tasks
     /\ pendingSubscriptions' = PendingDelete(pendingSubscriptions, m.cid)

\* C23: whenever subscriptions are pending and no acknowledgment is being
\* handled, the oldest pending entry is one the next acknowledgment matches,
\* whatever its correlation id; and an acknowledgment that arrives then
\* consumes that entry and is applied to its destination.
C23_FirstMatch ==
  [][/\ (pendingSubscriptions' # <<>> /\ InHandling' = {})
          => Matched(pendingSubscriptions')
     /\ \A s \in Sids :
          (/\ SubAckArrives(s)
           /\ pendingSubscriptions # <<>>
           /\ InHandling = {})
            => Consumes(s, pendingSubscriptions[1])]_vars

\* the acknowledgments whose handling has not finished
AckTasks == {i \in 1..Len(tasks) : tasks[i].kind = "suback"}

\* C24: while no more acknowledgments have been received than subscriptions
\* are pending, an acknowledgment never matches a pending entry that another
\* acknowledgment, whose handling has not finished, has matched.
C24_OverlappingAcksMatchDistinctEntries ==
  [][\A s \in Sids :
       (/\ SubAckArrives(s)
        /\ Matched(pendingSubscriptions)
        /\ Cardinality(AckTasks) < Len(pendingSubscriptions))
         => pendingSubscriptions[1].cid \notin InHandling]_vars

\* C25: the batches of event frames reach each listener of a destination in
\* the order the frames arrived (a frame's id is its arrival number).
C25_DispatchInArrivalOrder ==
  \A j, k \in 1..Len(delivered) :
    (/\ j < k
     /\ delivered[j].via = "frame" /\ delivered[k].via = "frame"
     /\ delivered[j].dest = delivered[k].dest
     /\ delivered[j].handler = delivered[k].handler)
      => delivered[j].fid <= delivered[k].fid

\* C26: when subscribe() fails to send a destination's frame because the
\* connection is not open, no pending entry for that request remains.
C26_PendingOnlyIfSent ==
  [][\A i \in 1..MaxTasks, cid \in Cids :
       (SubAfterGetSend(i, cid) /\ NotOpen(connState, ws))
         => \A k \in 1..Len(pendingSubscriptions') :
              pendingSubscriptions'[k].cid # cid]_vars
====
